---------------------------- MODULE Spec2Model ----------------------------
(***************************************************************************)
(* Model of the midas portfolio enrichment pipeline:                       *)
(*   deps/caches.py         lazily built process-wide caches               *)
(*   fetchers/frankfurter.py FiatRateCache                                  *)
(*   fetchers/coingecko.py   CoinGeckoFetcher, MarketDataCache              *)
(*   services/portfolio.py   get_portfolio, enrich_holdings, resolve_cg_id  *)
(*                                                                         *)
(* A client is one call chain of get_portfolio.  An action runs a client   *)
(* from one suspension point (an awaited HTTP request) to the next, which  *)
(* is the atomicity asyncio gives the code.                                *)
(*                                                                         *)
(* Python's None is the string "None" for string-valued positions and      *)
(* NoTime for a datetime.  Floats are integers: a fiat rate is counted in  *)
(* ten-thousandths (1.0 is 10000, 0.0067 is 67).                           *)
(***************************************************************************)
EXTENDS Integers, Sequences, FiniteSets, TLC

VARIABLES
    now,                \* wall clock, datetime.now(), in seconds
    fiat_inst,          \* deps.caches._fiat_rate_cache is not None
    rates,              \* FiatRateCache.rates
    fiat_last,          \* FiatRateCache._last_refreshed
    market_inst,        \* deps.caches._market_data_cache is not None
    symbol_to_id,       \* MarketDataCache.symbol_to_id
    id_to_market_data,  \* MarketDataCache.id_to_market_data
    market_last,        \* MarketDataCache._last_refreshed
    pc,                 \* per client: the request it is suspended on
    page,               \* per client: get_top_assets' loop variable
    top_sym,            \* per client: get_top_assets' local symbol_to_id
    top_md,             \* per client: get_top_assets' local id_to_market_data
    seen,               \* per client: the listing entries this get_top_assets call
                        \* has received, where a specification records them
    top_ok,             \* per client: how this call's get_top_assets ended
    holdings,           \* per client: the list returned by get_holdings
    idx,                \* per client: position of enrich_holdings' loop
    out,                \* per client: enrich_holdings' enriched_assets
    dropped,            \* per client: drop diagnostics printed by this call
    fallback_id,        \* per client: resolve_cg_id's fallback_id
    err,                \* per client: the exception get_portfolio raised
    ticks,              \* number of clock steps taken
    fiat_attempt,       \* when the last fiat fetch ended (either way)
    market_attempt,     \* when the last listing fetch ended (either way)
    fiat_built,         \* number of FiatRateCache objects constructed; the
                        \* global refers to the last one
    market_built,       \* number of MarketDataCache objects constructed
    fiat_ref,           \* per client: get_portfolio's fiat_rate_cache, the
                        \* number of the object it was given (0: none yet)
    market_ref          \* per client: get_portfolio's market_data_cache

vars == << now, fiat_inst, rates, fiat_last, market_inst, symbol_to_id,
           id_to_market_data, market_last, pc, page, top_sym, top_md, seen,
           top_ok, holdings, idx, out, dropped, fallback_id, err, ticks,
           fiat_attempt, market_attempt, fiat_built, market_built, fiat_ref,
           market_ref >>

---------------------------------------------------------------------------
\* Bounds and program constants

MaxTicks == 1
MaxHoldings == 2
page_limit == 1
last_page == 3
ttl_seconds == 3600
UsdRate == 10000

None == "None"
NoTime == 0 - 1
NoRate == 0 - 1

\* The callers of get_portfolio: those of Clients act in Spec, where requests
\* are served one after another
Clients == {"c1"}
AllClients == {"c1", "c2"}

EmptyMap == [k \in {} |-> None]

Put(f, k, v) == [x \in (DOMAIN f) \cup {k} |-> IF x = k THEN v ELSE f[x]]

GetOr(f, k, d) == IF k \in DOMAIN f THEN f[k] ELSE d

\* dict.get(k)
Get(f, k) == GetOr(f, k, None)

---------------------------------------------------------------------------
\* String conversions, tabulated over the strings the model uses

\* str.lower()
Lower(s) ==
    CASE s = "BTC" -> "btc"
      [] s = "JPY" -> "jpy"
      [] s = "USD" -> "usd"
      [] s = "XZY" -> "xzy"
      [] s = "X"   -> "x"
      [] OTHER     -> s

\* str.upper()
Upper(s) ==
    CASE s = "btc" -> "BTC"
      [] s = "jpy" -> "JPY"
      [] s = "usd" -> "USD"
      [] s = "xzy" -> "XZY"
      [] s = "x"   -> "X"
      [] OTHER     -> s

\* list(symbol): the characters of a string
Chars(s) ==
    CASE s = "btc" -> {"b", "t", "c"}
      [] s = "jpy" -> {"j", "p", "y"}
      [] s = "usd" -> {"u", "s", "d"}
      [] s = "xzy" -> {"x", "z", "y"}
      [] OTHER     -> {s}

\* k.replace("_in_currency", "") if k.endswith("_in_currency") else k
CleanKey(k) ==
    CASE k = "price_change_percentage_7d_in_currency" -> "price_change_percentage_7d"
      [] k = "current_price_in_currency" -> "current_price"
      [] OTHER -> k

\* pydantic's HttpUrl accepts the value
ValidUrl(s) == s \in {None, "https://img/btc.png", "https://img/bat.png", "https://img/x.png"}

---------------------------------------------------------------------------
\* The market listing: coin dictionaries as /coins/markets returns them

Coin(id, symbol, name, image, price, change7d) ==
    [id |-> id, symbol |-> symbol, name |-> name, image |-> image,
     current_price |-> price,
     price_change_percentage_7d_in_currency |-> change7d]

cBitcoin  == Coin("bitcoin", "BTC", "Bitcoin", "https://img/btc.png", 61000, 5)
cBitcoinLater == Coin("bitcoin", "btc", "Bitcoin", "https://img/btc.png", 62000, 6)
cBatcat   == Coin("batcat", "btc", "BatCat", "https://img/bat.png", 3, 1)
cNoId     == Coin(None, "btc", "Nameless", None, 1, 1)
cBroken   == Coin("broken", "brk", "Broken", "not-a-url", 2, 2)
cX        == Coin("x-coin", "x", "X Coin", "https://img/x.png", 7, 3)
cXNoId    == Coin(None, "x", "X Coin", "https://img/x.png", 7, 3)
cXBroken  == Coin("x-coin", "x", "X Coin", "not-a-url", 7, 3)

\* Entries a listing page can hold
ListingCoins == {cBitcoin, cBitcoinLater, cBatcat, cNoId, cBroken}

\* Coins the single-symbol endpoint can return
FallbackCoins == {cX, cXNoId, cXBroken}

SeqsUpTo(S, n) == UNION {[1..k -> S] : k \in 0..n}

\* One page of the listing: a transport error, a non-200 answer, or a body
PageResponses ==
    {[kind |-> "error", status |-> 0, body |-> << >>],
     [kind |-> "http", status |-> 500, body |-> << >>]}
    \cup {[kind |-> "http", status |-> 200, body |-> b] :
             b \in SeqsUpTo(ListingCoins, page_limit)}

MarketDataFields ==
    {"id", "symbol", "name", "image", "current_price", "price_change_percentage_7d"}

\* CoinGeckoFetcher._extract_clean_price_changes, for the timeframe "7d"
extract_clean_price_changes(coin) ==
    [k \in {"price_change_percentage_7d"} |->
        Get(coin, "price_change_percentage_7d_in_currency")]

\* {**coin, **self._extract_clean_price_changes(coin)}
cleaned_data(coin) ==
    LET x == extract_clean_price_changes(coin)
    IN  [k \in (DOMAIN coin) \cup (DOMAIN x) |-> IF k \in DOMAIN x THEN x[k] ELSE coin[k]]

\* MarketData(**cleaned_data) raises a validation error
MarketDataFails(coin) == ~ValidUrl(Get(cleaned_data(coin), "image"))

\* MarketData(**cleaned_data): the declared fields, absent ones None, others ignored
MarketData(coin) == [f \in MarketDataFields |-> Get(cleaned_data(coin), f)]

\* The loop below without "symbol not in symbol_to_id"
RECURSIVE TopAssetsLastWins(_, _, _)
TopAssetsLastWins(acc, body, i) ==
    IF i > Len(body) \/ ~acc.ok THEN acc
    ELSE LET coin    == body[i]
             symbol  == Lower(GetOr(coin, "symbol", ""))
             coin_id == Get(coin, "id")
         IN  IF symbol # "" /\ coin_id # None
             THEN IF MarketDataFails(coin)
                  THEN [acc EXCEPT !.ok = FALSE]
                  ELSE TopAssetsLastWins(
                          [acc EXCEPT !.sym = Put(acc.sym, symbol, coin_id),
                                      !.md  = Put(acc.md, coin_id, MarketData(coin))],
                          body, i + 1)
             ELSE TopAssetsLastWins(acc, body, i + 1)

\* The loop below with the symbol taken as the listing spells it
RECURSIVE TopAssetsLoopNoLower(_, _, _)
TopAssetsLoopNoLower(acc, body, i) ==
    IF i > Len(body) \/ ~acc.ok THEN acc
    ELSE LET coin    == body[i]
             symbol  == GetOr(coin, "symbol", "")
             coin_id == Get(coin, "id")
         IN  IF symbol # "" /\ coin_id # None
                /\ symbol \notin DOMAIN acc.sym
             THEN IF MarketDataFails(coin)
                  THEN [acc EXCEPT !.ok = FALSE]
                  ELSE TopAssetsLoopNoLower(
                          [acc EXCEPT !.sym = Put(acc.sym, symbol, coin_id),
                                      !.md  = Put(acc.md, coin_id, MarketData(coin))],
                          body, i + 1)
             ELSE TopAssetsLoopNoLower(acc, body, i + 1)

\* The body of get_top_assets' "for coin in response.json()" loop, from entry i on.
\* acc is [sym, md, ok]; ok turns FALSE when an entry raises.
RECURSIVE TopAssetsLoop(_, _, _)
TopAssetsLoop(acc, body, i) ==
    IF i > Len(body) \/ ~acc.ok THEN acc
    ELSE LET coin    == body[i]
             symbol  == Lower(GetOr(coin, "symbol", ""))
             coin_id == Get(coin, "id")
         IN  IF symbol # "" /\ coin_id # None
                /\ symbol \notin DOMAIN acc.sym
             THEN IF MarketDataFails(coin)
                  THEN [acc EXCEPT !.ok = FALSE]
                  ELSE TopAssetsLoop(
                          [acc EXCEPT !.sym = Put(acc.sym, symbol, coin_id),
                                      !.md  = Put(acc.md, coin_id, MarketData(coin))],
                          body, i + 1)
             ELSE TopAssetsLoop(acc, body, i + 1)

\* The single-symbol endpoint, asked for the symbols in query: a transport
\* error, a non-200 answer, or the matching coins (the code reads the first)
FallbackResponses(query) ==
    {[kind |-> "error", status |-> 0, body |-> << >>],
     [kind |-> "http", status |-> 500, body |-> << >>],
     [kind |-> "http", status |-> 200, body |-> << >>]}
    \cup {[kind |-> "http", status |-> 200, body |-> << coin >>] :
             coin \in {x \in FallbackCoins : Lower(x.symbol) \in query}}

\* CoinGeckoFetcher.get_coin_market_data_by_symbol, given the answer:
\* (coin_id, MarketData), or (None, {}) from the except branch
get_coin_market_data_by_symbol(resp) ==
    IF resp.kind = "error" \/ resp.status # 200 \/ Len(resp.body) = 0
    THEN [id |-> None, md |-> EmptyMap]
    ELSE LET coin == resp.body[1]
         IN  IF MarketDataFails(coin)
             THEN [id |-> None, md |-> EmptyMap]
             ELSE [id |-> Get(coin, "id"), md |-> MarketData(coin)]

\* MarketDataCache.get_id_from_symbol
get_id_from_symbol(s2i, symbol) == Get(s2i, Lower(symbol))

---------------------------------------------------------------------------
\* The fiat rate source

RateTables ==
    { EmptyMap,
      [k \in {"JPY"} |-> 70],
      [k \in {"JPY", "USD"} |-> IF k = "JPY" THEN 67 ELSE 10800],
      [k \in {"XZY"} |-> 3] }

\* resp.json(): a transport error, a body without "rates", or a rates table
FiatResponses ==
    {[kind |-> "error", has_rates |-> FALSE, table |-> EmptyMap],
     [kind |-> "json", has_rates |-> FALSE, table |-> EmptyMap]}
    \cup {[kind |-> "json", has_rates |-> TRUE, table |-> t] : t \in RateTables}

FiatFails(resp) == resp.kind = "error" \/ ~resp.has_rates

\* The refreshed table without the line rates["usd"] = 1.0
RefreshedRatesNoUsd(table) ==
    [k \in {Lower(x) : x \in DOMAIN table} |->
        table[CHOOSE x \in DOMAIN table : Lower(x) = k]]

\* {k.lower(): float(v) for k, v in data["rates"].items()}, then rates["usd"] = 1.0
RefreshedRates(table) ==
    Put([k \in {Lower(x) : x \in DOMAIN table} |->
            table[CHOOSE x \in DOMAIN table : Lower(x) = k]],
        "usd", UsdRate)

\* FiatRateCache.get_rate
get_rate(rts, symbol) == GetOr(rts, Lower(symbol), NoRate)

---------------------------------------------------------------------------
\* Raw holdings, as CoinbaseRequestHandler._construct_portfolio builds them

Holding(id, name, symbol, balance, usd_price) ==
    [id |-> id, name |-> name, symbol |-> symbol, balance |-> balance,
     usd_price |-> usd_price, usd_value |-> balance * usd_price,
     is_staked |-> FALSE, apy |-> None]

hBtc     == Holding("acct-btc", "Bitcoin", "BTC", 2, 30000)
hBtcBad  == Holding("acct-btc2", None, "BTC", 1, 30000)
hJpy     == Holding("acct-jpy", "Japanese Yen", "JPY", 10000, 1)
hJpyBad  == Holding("acct-jpy2", None, "JPY", 500, 1)
hXzy     == Holding("acct-xzy", "Xzy Token", "XZY", 5, 0)

HoldingSet == {hBtc, hBtcBad, hJpy, hJpyBad, hXzy}

\* sorted(..., key=usd_value, reverse=True) over accounts with distinct values
SortedDesc(s) == \A i \in 1..(Len(s) - 1) : s[i].usd_value > s[i + 1].usd_value

HoldingLists == {s \in SeqsUpTo(HoldingSet, MaxHoldings) : SortedDesc(s)}

\* get_holdings: the accounts request fails, or the portfolio is returned
HoldingsResponses ==
    {[kind |-> "error", list |-> << >>]}
    \cup {[kind |-> "ok", list |-> s] : s \in HoldingLists}

---------------------------------------------------------------------------
\* enrich_holdings, one holding

RequiredFields ==
    {"id", "name", "symbol", "balance", "usd_price", "usd_value", "is_staked"}

CryptoAssetFields ==
    MarketDataFields
    \cup {"id", "name", "symbol", "balance", "usd_price", "usd_value",
          "is_staked", "apy", "estimated_annual_yield_usd", "last_updated"}

FiatAssetFields == {"id", "symbol", "name", "balance", "usd_value"}

\* The merge where market metadata overwrites the holding's keys
MergeMarketWins(asset, md_dict) ==
    [k \in (DOMAIN asset) \cup {CleanKey(x) : x \in DOMAIN md_dict} |->
        IF k \in {CleanKey(x) : x \in DOMAIN md_dict}
        THEN md_dict[CHOOSE x \in DOMAIN md_dict : CleanKey(x) = k]
        ELSE asset[k]]

\* merged = dict(asset); for k, v in md: if cleaned_key not in merged: merged[cleaned_key] = v
Merge(asset, md_dict) ==
    [k \in (DOMAIN asset) \cup {CleanKey(x) : x \in DOMAIN md_dict} |->
        IF k \in DOMAIN asset
        THEN asset[k]
        ELSE md_dict[CHOOSE x \in DOMAIN md_dict : CleanKey(x) = k]]

\* CryptoAsset(**merged) raises: a required field is missing or None (the
\* holdings of this model carry None only in string-valued fields)
CryptoAssetFails(merged) ==
    \/ \E f \in RequiredFields : f \notin DOMAIN merged
    \/ \E f \in RequiredFields \cap {"id", "name", "symbol"} : merged[f] = None

\* CryptoAsset(**merged): the declared fields, with their defaults
CryptoAsset(merged) ==
    [f \in CryptoAssetFields |->
        IF f \in DOMAIN merged THEN merged[f]
        ELSE IF f = "estimated_annual_yield_usd" THEN 0 ELSE None]

\* The crypto branch of the loop body: what happens to the asset
CryptoBranch(asset, cg_id, i2m) ==
    IF cg_id \notin DOMAIN i2m
    THEN [tag |-> "raise", err |-> "KeyError", item |-> EmptyMap]
    ELSE LET merged == Merge(asset, i2m[cg_id])
         IN  IF CryptoAssetFails(merged)
             THEN [tag |-> "drop", err |-> None, item |-> EmptyMap]
             ELSE [tag |-> "emit", err |-> None,
                   item |-> [kind |-> "crypto", rec |-> CryptoAsset(merged)]]

\* enrich_fiat_asset without the "rate is None" return: a missing rate counts as 0
EnrichFiatNoSkip(asset, rts) ==
    LET symbol == Lower(asset.symbol)
        rate   == get_rate(rts, symbol)
    IN  [tag |-> "emit", err |-> None,
         item |-> [kind |-> "fiat",
                   rec |-> [id |-> Get(asset, "id"), symbol |-> symbol,
                            name |-> GetOr(asset, "name", Upper(symbol)),
                            balance |-> GetOr(asset, "balance", 0),
                            usd_value |-> IF rate = NoRate THEN 0
                                          ELSE GetOr(asset, "balance", 0) * rate]]]

\* enrich_fiat_asset
enrich_fiat_asset(asset, rts) ==
    LET symbol == Lower(asset.symbol)
        rate   == get_rate(rts, symbol)
    IN  IF rate = NoRate
        THEN [tag |-> "drop", err |-> None, item |-> EmptyMap]
        ELSE LET balance == GetOr(asset, "balance", 0)
                 id      == Get(asset, "id")
                 name    == GetOr(asset, "name", Upper(symbol))
             IN  IF id = None \/ name = None
                 THEN [tag |-> "raise", err |-> "ValidationError", item |-> EmptyMap]
                 ELSE [tag |-> "emit", err |-> None,
                       item |-> [kind |-> "fiat",
                                 rec |-> [id |-> id, symbol |-> symbol, name |-> name,
                                          balance |-> balance,
                                          usd_value |-> balance * rate]]]

---------------------------------------------------------------------------
\* enrich_holdings, from holding i up to the next suspension

Step(pc_, idx_, out_, dropped_, err_) ==
    [pc |-> pc_, idx |-> idx_, out |-> out_, dropped |-> dropped_, err |-> err_]

RECURSIVE EnrichFrom(_, _, _, _, _, _, _)

\* The loop with enriched_assets.insert(0, ...) in place of append
AfterPrepending(r, hs, i, acc, ndrop, s2i, i2m, rts) ==
    CASE r.tag = "emit"  -> EnrichFrom(hs, i + 1, << r.item >> \o acc, ndrop, s2i, i2m, rts)
      [] r.tag = "drop"  -> EnrichFrom(hs, i + 1, acc, ndrop + 1, s2i, i2m, rts)
      [] r.tag = "raise" -> [pc |-> "raised", idx |-> i, out |-> acc,
                             dropped |-> ndrop, err |-> r.err]

\* What the loop does with the outcome r of holding i, and how it goes on
After(r, hs, i, acc, ndrop, s2i, i2m, rts) ==
    CASE r.tag = "emit"  -> EnrichFrom(hs, i + 1, Append(acc, r.item), ndrop, s2i, i2m, rts)
      [] r.tag = "drop"  -> EnrichFrom(hs, i + 1, acc, ndrop + 1, s2i, i2m, rts)
      [] r.tag = "raise" -> Step("raised", i, acc, ndrop, r.err)

\* The loop with a resolve_cg_id that goes to the fallback fetch without
\* looking in the cache
EnrichFromNoCache(hs, i, acc, ndrop, s2i, i2m, rts) ==
    IF i > Len(hs)
    THEN Step("done", i, acc, ndrop, None)
    ELSE Step("fallback_get", i, acc, ndrop, None)

\* The loop of enrich_holdings from holding i: it runs on while resolve_cg_id
\* finds the symbol in the cache and suspends at the first fallback fetch
EnrichFrom(hs, i, acc, ndrop, s2i, i2m, rts) ==
    IF i > Len(hs)
    THEN Step("done", i, acc, ndrop, None)
    ELSE LET cg_id == get_id_from_symbol(s2i, Lower(hs[i].symbol))
         IN  IF cg_id = None
             THEN Step("fallback_get", i, acc, ndrop, None)
             ELSE After(CryptoBranch(hs[i], cg_id, i2m), hs, i, acc, ndrop, s2i, i2m, rts)

\* get_asset_fallback storing the metadata without the symbol's id
FallbackCachesNoIdentity(symbol, got, s2i, i2m) ==
    IF got.id # None
    THEN [sym |-> s2i, md |-> Put(i2m, got.id, got.md)]
    ELSE [sym |-> s2i, md |-> i2m]

\* get_asset_fallback remembering a miss: the symbol is stored with an empty id
FallbackCachesNegative(symbol, got, s2i, i2m) ==
    IF got.id # None
    THEN [sym |-> Put(s2i, symbol, got.id), md |-> Put(i2m, got.id, got.md)]
    ELSE [sym |-> Put(s2i, symbol, ""), md |-> i2m]

\* get_asset_fallback leaving its result as the caches' only entry
FallbackCachesReplacing(symbol, got, s2i, i2m) ==
    IF got.id # None
    THEN [sym |-> Put(EmptyMap, symbol, got.id), md |-> Put(EmptyMap, got.id, got.md)]
    ELSE [sym |-> s2i, md |-> i2m]

\* get_asset_fallback recording the identity without the metadata
FallbackCachesNoMetadata(symbol, got, s2i, i2m) ==
    IF got.id # None
    THEN [sym |-> Put(s2i, symbol, got.id), md |-> i2m]
    ELSE [sym |-> s2i, md |-> i2m]

\* MarketDataCache.get_asset_fallback after the fetch: the caches it leaves
FallbackCaches(symbol, got, s2i, i2m) ==
    IF got.id # None
    THEN [sym |-> Put(s2i, symbol, got.id), md |-> Put(i2m, got.id, got.md)]
    ELSE [sym |-> s2i, md |-> i2m]

\* The loop resumed, with a fiat branch taken whenever the rate table has the
\* holding's symbol
EnrichResumeRateFirst(hs, i, acc, ndrop, got, s2i, i2m, rts) ==
    LET caches == FallbackCaches(Lower(hs[i].symbol), got, s2i, i2m)
        r == IF got.id = None \/ got.id = ""
                \/ get_rate(rts, Lower(hs[i].symbol)) # NoRate
             THEN enrich_fiat_asset(hs[i], rts)
             ELSE CryptoBranch(hs[i], got.id, caches.md)
    IN  After(r, hs, i, acc, ndrop, caches.sym, caches.md, rts)

\* The loop of enrich_holdings resumed with the fallback's answer for holding i
EnrichResume(hs, i, acc, ndrop, got, s2i, i2m, rts) ==
    LET caches == FallbackCaches(Lower(hs[i].symbol), got, s2i, i2m)
        r == IF got.id = None \/ got.id = ""
             THEN enrich_fiat_asset(hs[i], rts)
             ELSE CryptoBranch(hs[i], got.id, caches.md)
    IN  After(r, hs, i, acc, ndrop, caches.sym, caches.md, rts)

---------------------------------------------------------------------------
\* The caches

\* maybe_refresh's test, with t = datetime.now()
Stale(last, t) == last = NoTime \/ t - last > ttl_seconds

\* get_top_assets has received resp for the current page: "more" pages to
\* fetch, or its return value, ({}, {}) from the except branch
TopAssetsResult(sym, md, pg, resp) ==
    LET acc == TopAssetsLoop([sym |-> sym, md |-> md, ok |-> TRUE], resp.body, 1)
    IN  IF resp.kind = "error" \/ resp.status # 200 \/ ~acc.ok
        THEN [state |-> "failed", sym |-> EmptyMap, md |-> EmptyMap]
        ELSE IF pg < last_page
             THEN [state |-> "more", sym |-> acc.sym, md |-> acc.md]
             ELSE [state |-> "ok", sym |-> acc.sym, md |-> acc.md]

\* A refresh that empties the table before it fetches
RatesClearedOnFailure(rts) == EmptyMap

\* FiatRateCache._refresh_cache when the request or the payload raises: the
\* assignment to self.rates is not reached
RatesAfterFailure(rts) == rts

\* An accessor that builds a new cache object on every call
ConstructEveryCall(inst, built) == built + 1

\* The accessors' "if cache is None: cache = Cache()": the number of objects
\* constructed so far, after the test
Construct(inst, built) == IF inst THEN built ELSE built + 1

fiatVars   == << fiat_inst, rates, fiat_last, fiat_attempt, fiat_built >>
marketVars == << market_inst, symbol_to_id, id_to_market_data, market_last,
                 market_attempt, market_built >>
refVars    == << fiat_ref, market_ref >>
topVars    == << page, top_sym, top_md, seen, top_ok >>
enrichVars == << holdings, idx, out, dropped, fallback_id >>
clockVars  == << now, ticks >>

Init ==
    /\ now = 0
    /\ ticks = 0
    /\ fiat_inst = FALSE
    /\ rates = EmptyMap
    /\ fiat_last = NoTime
    /\ fiat_attempt = NoTime
    /\ market_inst = FALSE
    /\ symbol_to_id = EmptyMap
    /\ id_to_market_data = EmptyMap
    /\ market_last = NoTime
    /\ market_attempt = NoTime
    /\ pc = [c \in AllClients |-> "idle"]
    /\ page = [c \in AllClients |-> 0]
    /\ top_sym = [c \in AllClients |-> EmptyMap]
    /\ top_md = [c \in AllClients |-> EmptyMap]
    /\ seen = [c \in AllClients |-> << >>]
    /\ top_ok = [c \in AllClients |-> "none"]
    /\ holdings = [c \in AllClients |-> << >>]
    /\ idx = [c \in AllClients |-> 0]
    /\ out = [c \in AllClients |-> << >>]
    /\ dropped = [c \in AllClients |-> 0]
    /\ fallback_id = [c \in AllClients |-> None]
    /\ err = [c \in AllClients |-> None]
    /\ fiat_built = 0
    /\ market_built = 0
    /\ fiat_ref = [c \in AllClients |-> 0]
    /\ market_ref = [c \in AllClients |-> 0]

\* get_market_data_cache up to its first suspension: the cache object is
\* built on first use, and a stale cache starts get_top_assets at page 1
get_market_data_cache(c) ==
    /\ market_inst' = TRUE
    /\ market_built' = Construct(market_inst, market_built)
    /\ UNCHANGED << symbol_to_id, id_to_market_data, market_last, market_attempt >>
    /\ IF ~market_inst \/ Stale(market_last, now)
       THEN /\ pc' = [pc EXCEPT ![c] = "market_get"]
            /\ page' = [page EXCEPT ![c] = 1]
            /\ top_sym' = [top_sym EXCEPT ![c] = EmptyMap]
            /\ top_md' = [top_md EXCEPT ![c] = EmptyMap]
            /\ seen' = [seen EXCEPT ![c] = << >>]
            /\ UNCHANGED << top_ok, market_ref >>
       ELSE /\ pc' = [pc EXCEPT ![c] = "holdings_get"]
            /\ market_ref' = [market_ref EXCEPT ![c] = market_built']
            /\ UNCHANGED topVars

\* A get_portfolio that asks for the holdings before it looks at the caches
CallHoldingsFirst(c) ==
    /\ pc[c] = "idle"
    /\ pc' = [pc EXCEPT ![c] = "holdings_get"]
    /\ UNCHANGED << fiatVars, marketVars, topVars, enrichVars, clockVars, err,
                    refVars >>

\* get_portfolio is called: get_fiat_rate_cache up to its first suspension
Call(c) ==
    /\ pc[c] = "idle"
    /\ fiat_inst' = TRUE
    /\ fiat_built' = Construct(fiat_inst, fiat_built)
    /\ UNCHANGED << rates, fiat_last, fiat_attempt, clockVars, enrichVars, err >>
    /\ IF ~fiat_inst \/ Stale(fiat_last, now)
       THEN /\ pc' = [pc EXCEPT ![c] = "fiat_get"]
            /\ UNCHANGED << marketVars, topVars, refVars >>
       ELSE /\ fiat_ref' = [fiat_ref EXCEPT ![c] = fiat_built']
            /\ get_market_data_cache(c)

\* A _refresh_cache that notes the time of the attempt even when it raises
FiatResponseStampsFailure(c, resp) ==
    /\ pc[c] = "fiat_get"
    /\ fiat_attempt' = now
    /\ fiat_last' = now
    /\ IF FiatFails(resp)
       THEN /\ rates' = RatesAfterFailure(rates)
            /\ pc' = [pc EXCEPT ![c] = "raised"]
            /\ err' = [err EXCEPT ![c] = "fiat_refresh"]
       ELSE /\ rates' = RefreshedRates(resp.table)
            /\ pc' = [pc EXCEPT ![c] = "fiat_close"]
            /\ UNCHANGED err
    /\ UNCHANGED << fiat_inst, fiat_built, marketVars, topVars, enrichVars,
                    clockVars, refVars >>

\* FiatRateCache._refresh_cache resumes with the rate source's answer
FiatResponse(c, resp) ==
    /\ pc[c] = "fiat_get"
    /\ fiat_attempt' = now
    /\ IF FiatFails(resp)
       THEN /\ rates' = RatesAfterFailure(rates)
            /\ pc' = [pc EXCEPT ![c] = "raised"]
            /\ err' = [err EXCEPT ![c] = "fiat_refresh"]
            /\ UNCHANGED fiat_last
       ELSE /\ rates' = RefreshedRates(resp.table)
            /\ fiat_last' = now
            /\ pc' = [pc EXCEPT ![c] = "fiat_close"]
            /\ UNCHANGED err
    /\ UNCHANGED << fiat_inst, fiat_built, marketVars, topVars, enrichVars,
                    clockVars, refVars >>

\* The fiat request's client is closed; get_portfolio goes on to the market cache
FiatClose(c) ==
    /\ pc[c] = "fiat_close"
    /\ fiat_ref' = [fiat_ref EXCEPT ![c] = fiat_built]
    /\ get_market_data_cache(c)
    /\ UNCHANGED << fiatVars, enrichVars, clockVars, err >>

\* dict.update: the entries of new over those of old
Merged(old, new) ==
    [k \in (DOMAIN old) \cup (DOMAIN new) |-> IF k \in DOMAIN new THEN new[k] ELSE old[k]]

\* A _refresh_cache that updates the cached maps with the fetched ones
PageResponseMerging(c, resp, log) ==
    /\ pc[c] = "market_get"
    /\ LET r == TopAssetsResult(top_sym[c], top_md[c], page[c], resp)
       IN  /\ seen' = [seen EXCEPT ![c] = IF log THEN seen[c] \o resp.body ELSE << >>]
           /\ top_sym' = [top_sym EXCEPT ![c] = r.sym]
           /\ top_md' = [top_md EXCEPT ![c] = r.md]
           /\ IF r.state = "more"
              THEN /\ page' = [page EXCEPT ![c] = page[c] + 1]
                   /\ UNCHANGED << pc, top_ok, marketVars, market_ref >>
              ELSE /\ symbol_to_id' = Merged(symbol_to_id, r.sym)
                   /\ id_to_market_data' = Merged(id_to_market_data, r.md)
                   /\ market_last' = now
                   /\ market_attempt' = now
                   /\ top_ok' = [top_ok EXCEPT ![c] = r.state]
                   /\ pc' = [pc EXCEPT ![c] = "holdings_get"]
                   /\ market_ref' = [market_ref EXCEPT ![c] = market_built]
                   /\ UNCHANGED << page, market_inst, market_built >>
    /\ UNCHANGED << fiatVars, enrichVars, clockVars, err, fiat_ref >>

\* A get_top_assets that fills the cache's own maps page by page, in place of
\* local ones
PageResponseInPlace(c, resp, log) ==
    /\ pc[c] = "market_get"
    /\ LET r == TopAssetsResult(IF page[c] = 1 THEN EmptyMap ELSE symbol_to_id,
                                IF page[c] = 1 THEN EmptyMap ELSE id_to_market_data,
                                page[c], resp)
       IN  /\ seen' = [seen EXCEPT ![c] = IF log THEN seen[c] \o resp.body ELSE << >>]
           /\ top_sym' = [top_sym EXCEPT ![c] = r.sym]
           /\ top_md' = [top_md EXCEPT ![c] = r.md]
           /\ symbol_to_id' = r.sym
           /\ id_to_market_data' = r.md
           /\ IF r.state = "more"
              THEN /\ page' = [page EXCEPT ![c] = page[c] + 1]
                   /\ UNCHANGED << pc, top_ok, market_inst, market_last,
                                   market_attempt, market_built, market_ref >>
              ELSE /\ market_last' = now
                   /\ market_attempt' = now
                   /\ top_ok' = [top_ok EXCEPT ![c] = r.state]
                   /\ pc' = [pc EXCEPT ![c] = "holdings_get"]
                   /\ market_ref' = [market_ref EXCEPT ![c] = market_built]
                   /\ UNCHANGED << page, market_inst, market_built >>
    /\ UNCHANGED << fiatVars, enrichVars, clockVars, err, fiat_ref >>

\* A _refresh_cache that notes the time of a successful fetch only
PageResponseUnstampedFailure(c, resp, log) ==
    /\ pc[c] = "market_get"
    /\ LET r == TopAssetsResult(top_sym[c], top_md[c], page[c], resp)
       IN  /\ seen' = [seen EXCEPT ![c] = IF log THEN seen[c] \o resp.body ELSE << >>]
           /\ top_sym' = [top_sym EXCEPT ![c] = r.sym]
           /\ top_md' = [top_md EXCEPT ![c] = r.md]
           /\ IF r.state = "more"
              THEN /\ page' = [page EXCEPT ![c] = page[c] + 1]
                   /\ UNCHANGED << pc, top_ok, marketVars, market_ref >>
              ELSE /\ symbol_to_id' = r.sym
                   /\ id_to_market_data' = r.md
                   /\ market_last' = IF r.state = "failed" THEN market_last ELSE now
                   /\ market_attempt' = now
                   /\ top_ok' = [top_ok EXCEPT ![c] = r.state]
                   /\ pc' = [pc EXCEPT ![c] = "holdings_get"]
                   /\ market_ref' = [market_ref EXCEPT ![c] = market_built]
                   /\ UNCHANGED << page, market_inst, market_built >>
    /\ UNCHANGED << fiatVars, enrichVars, clockVars, err, fiat_ref >>

\* get_top_assets resumes with a page; after the last page, or on a failure,
\* MarketDataCache._refresh_cache stores what get_top_assets returned
PageResponse(c, resp, log) ==
    /\ pc[c] = "market_get"
    /\ LET r == TopAssetsResult(top_sym[c], top_md[c], page[c], resp)
       IN  /\ seen' = [seen EXCEPT ![c] = IF log THEN seen[c] \o resp.body ELSE << >>]
           /\ top_sym' = [top_sym EXCEPT ![c] = r.sym]
           /\ top_md' = [top_md EXCEPT ![c] = r.md]
           /\ IF r.state = "more"
              THEN /\ page' = [page EXCEPT ![c] = page[c] + 1]
                   /\ UNCHANGED << pc, top_ok, marketVars, market_ref >>
              ELSE /\ symbol_to_id' = r.sym
                   /\ id_to_market_data' = r.md
                   /\ market_last' = now
                   /\ market_attempt' = now
                   /\ top_ok' = [top_ok EXCEPT ![c] = r.state]
                   /\ pc' = [pc EXCEPT ![c] = "holdings_get"]
                   /\ market_ref' = [market_ref EXCEPT ![c] = market_built]
                   /\ UNCHANGED << page, market_inst, market_built >>
    /\ UNCHANGED << fiatVars, enrichVars, clockVars, err, fiat_ref >>

\* The fields of a client that enrich_holdings' loop leaves at a suspension
EnrichTo(c, st) ==
    /\ pc' = [pc EXCEPT ![c] = st.pc]
    /\ idx' = [idx EXCEPT ![c] = st.idx]
    /\ out' = [out EXCEPT ![c] = st.out]
    /\ dropped' = [dropped EXCEPT ![c] = st.dropped]
    /\ err' = [err EXCEPT ![c] = st.err]

\* get_portfolio catching the holdings error: it notes the error and returns
\* an empty list
HoldingsResponseSwallowed(c, resp) ==
    /\ pc[c] = "holdings_get"
    /\ IF resp.kind = "error"
       THEN /\ pc' = [pc EXCEPT ![c] = "done"]
            /\ err' = [err EXCEPT ![c] = "holdings"]
            /\ UNCHANGED enrichVars
       ELSE /\ holdings' = [holdings EXCEPT ![c] = resp.list]
            /\ EnrichTo(c, EnrichFrom(resp.list, 1, << >>, 0, symbol_to_id,
                                      id_to_market_data, rates))
            /\ UNCHANGED fallback_id
    /\ UNCHANGED << fiatVars, marketVars, topVars, clockVars, refVars >>

\* get_holdings answers: it raises, or enrich_holdings starts on the list
HoldingsResponse(c, resp) ==
    /\ pc[c] = "holdings_get"
    /\ IF resp.kind = "error"
       THEN /\ pc' = [pc EXCEPT ![c] = "raised"]
            /\ err' = [err EXCEPT ![c] = "holdings"]
            /\ UNCHANGED enrichVars
       ELSE /\ holdings' = [holdings EXCEPT ![c] = resp.list]
            /\ EnrichTo(c, EnrichFrom(resp.list, 1, << >>, 0, symbol_to_id,
                                      id_to_market_data, rates))
            /\ UNCHANGED fallback_id
    /\ UNCHANGED << fiatVars, marketVars, topVars, clockVars, refVars >>

\* Every answer the single-symbol endpoint can give to some holding's query
AnyFallbackResponse ==
    UNION {FallbackResponses(Chars(Lower(h.symbol))) : h \in HoldingSet}

\* get_asset_fallback resumes with the single-symbol endpoint's answer to the
\* query list(symbol)
FallbackResponse(c, resp) ==
    /\ pc[c] = "fallback_get"
    /\ LET h      == holdings[c][idx[c]]
           symbol == Lower(h.symbol)
           got    == get_coin_market_data_by_symbol(resp)
           caches == FallbackCaches(symbol, got, symbol_to_id, id_to_market_data)
       IN  /\ resp \in FallbackResponses(Chars(symbol))
           /\ symbol_to_id' = caches.sym
           /\ id_to_market_data' = caches.md
           /\ fallback_id' = [fallback_id EXCEPT ![c] = got.id]
           /\ EnrichTo(c, EnrichResume(holdings[c], idx[c], out[c], dropped[c], got,
                                       symbol_to_id, id_to_market_data, rates))
    /\ UNCHANGED << market_inst, market_last, market_attempt, market_built,
                    fiatVars, topVars, clockVars, holdings, refVars >>

\* get_portfolio has returned or raised; the client is free for the next request
Return(c) ==
    /\ pc[c] \in {"done", "raised"}
    /\ pc' = [pc EXCEPT ![c] = "idle"]
    /\ page' = [page EXCEPT ![c] = 0]
    /\ top_sym' = [top_sym EXCEPT ![c] = EmptyMap]
    /\ top_md' = [top_md EXCEPT ![c] = EmptyMap]
    /\ seen' = [seen EXCEPT ![c] = << >>]
    /\ top_ok' = [top_ok EXCEPT ![c] = "none"]
    /\ holdings' = [holdings EXCEPT ![c] = << >>]
    /\ idx' = [idx EXCEPT ![c] = 0]
    /\ out' = [out EXCEPT ![c] = << >>]
    /\ dropped' = [dropped EXCEPT ![c] = 0]
    /\ fallback_id' = [fallback_id EXCEPT ![c] = None]
    /\ err' = [err EXCEPT ![c] = None]
    /\ fiat_ref' = [fiat_ref EXCEPT ![c] = 0]
    /\ market_ref' = [market_ref EXCEPT ![c] = 0]
    /\ UNCHANGED << fiatVars, marketVars, clockVars >>

\* Time passes: exactly the TTL, or just over it
Tick(dt) ==
    /\ ticks < MaxTicks
    /\ ticks' = ticks + 1
    /\ now' = now + dt
    /\ UNCHANGED << fiatVars, marketVars, topVars, enrichVars, pc, err, refVars >>

Next ==
    \/ \E c \in Clients : Call(c)
    \/ \E c \in Clients : \E resp \in FiatResponses : FiatResponse(c, resp)
    \/ \E c \in Clients : FiatClose(c)
    \/ \E c \in Clients : \E resp \in PageResponses : PageResponse(c, resp, FALSE)
    \/ \E c \in Clients : \E resp \in HoldingsResponses : HoldingsResponse(c, resp)
    \/ \E c \in Clients : \E resp \in AnyFallbackResponse : FallbackResponse(c, resp)
    \/ \E c \in Clients : Return(c)
    \/ \E dt \in {ttl_seconds, ttl_seconds + 1} : Tick(dt)

Spec == Init /\ [][Next]_vars

\* Every awaited request is answered or fails (httpx applies its default
\* timeout to each), and the event loop resumes the coroutine that waits on it
Responds(c) ==
    /\ WF_vars(\E resp \in FiatResponses : FiatResponse(c, resp))
    /\ WF_vars(FiatClose(c))
    /\ WF_vars(\E resp \in PageResponses : PageResponse(c, resp, FALSE))
    /\ WF_vars(\E resp \in HoldingsResponses : HoldingsResponse(c, resp))
    /\ WF_vars(\E resp \in AnyFallbackResponse : FallbackResponse(c, resp))

SpecFair == Init /\ [][Next]_vars /\ \A c \in Clients : Responds(c)

---------------------------------------------------------------------------
\* A direct caller of deps.caches.get_market_data_cache, outside get_portfolio

\* get_market_data_cache is called on its own
MarketCall(c) ==
    /\ pc[c] = "idle"
    /\ get_market_data_cache(c)
    /\ UNCHANGED << fiatVars, enrichVars, clockVars, err, fiat_ref >>

\* get_market_data_cache has returned the cache to its direct caller
MarketReturn(c) ==
    /\ pc[c] = "holdings_get"
    /\ pc' = [pc EXCEPT ![c] = "idle"]
    /\ page' = [page EXCEPT ![c] = 0]
    /\ top_sym' = [top_sym EXCEPT ![c] = EmptyMap]
    /\ top_md' = [top_md EXCEPT ![c] = EmptyMap]
    /\ seen' = [seen EXCEPT ![c] = << >>]
    /\ top_ok' = [top_ok EXCEPT ![c] = "none"]
    /\ market_ref' = [market_ref EXCEPT ![c] = 0]
    /\ UNCHANGED << fiatVars, marketVars, enrichVars, clockVars, err, fiat_ref >>

\* The market cache alone, every listing entry a refresh receives recorded in seen
NextListing ==
    \/ \E c \in Clients : MarketCall(c)
    \/ \E c \in Clients : \E resp \in PageResponses : PageResponse(c, resp, TRUE)
    \/ \E c \in Clients : MarketReturn(c)
    \/ \E dt \in {ttl_seconds, ttl_seconds + 1} : Tick(dt)

SpecListing == Init /\ [][NextListing]_vars

---------------------------------------------------------------------------
\* Two callers of get_portfolio whose calls overlap: each is suspended at its
\* own request, and the answers arrive in any order

ConcPageResponses ==
    {r \in PageResponses :
        \/ r.kind = "error"
        \/ r.status = 200 /\ \A i \in 1..Len(r.body) : r.body[i] \in {cBitcoin, cBitcoinLater}}

ConcHoldingsResponses ==
    {r \in HoldingsResponses : \A i \in 1..Len(r.list) : r.list[i] \in {hBtc, hXzy}}

ConcFiatResponses ==
    {r \in FiatResponses :
        r.kind = "error" \/ (r.has_rates /\ DOMAIN r.table = {"XZY"})}

NextConc ==
    \/ \E c \in AllClients : Call(c)
    \/ \E c \in AllClients : \E resp \in ConcFiatResponses : FiatResponse(c, resp)
    \/ \E c \in AllClients : FiatClose(c)
    \/ \E c \in AllClients : \E resp \in ConcPageResponses : PageResponse(c, resp, FALSE)
    \/ \E c \in AllClients : \E resp \in ConcHoldingsResponses : HoldingsResponse(c, resp)
    \/ \E c \in AllClients : \E resp \in AnyFallbackResponse : FallbackResponse(c, resp)
    \/ \E c \in AllClients : Return(c)
    \/ Tick(ttl_seconds + 1)

SpecConc == Init /\ [][NextConc]_vars

----------------------------------------------------------------------------
\* Two overlapping callers and a coin that the listing and the single-symbol
\* endpoint both know, under different ids

\* The listing's entry for the symbol "x"
cXListed == Coin("x-listed", "x", "X Listed", "https://img/x.png", 9, 4)

\* A holding of that symbol; list("x") is ["x"], the query the caller means
hX == Holding("acct-x", "X Token", "X", 3, 0)

\* A listing page: a transport error, or a body that has the entry or not
RacePageResponses ==
    {[kind |-> "error", status |-> 0, body |-> << >>]}
    \cup {[kind |-> "http", status |-> 200, body |-> b] :
             b \in SeqsUpTo({cXListed}, page_limit)}

RaceHoldingsResponses ==
    {[kind |-> "error", list |-> << >>], [kind |-> "ok", list |-> << hX >>]}

NextRace ==
    \/ \E c \in AllClients : Call(c)
    \/ \E c \in AllClients : \E resp \in ConcFiatResponses : FiatResponse(c, resp)
    \/ \E c \in AllClients : FiatClose(c)
    \/ \E c \in AllClients : \E resp \in RacePageResponses : PageResponse(c, resp, FALSE)
    \/ \E c \in AllClients : \E resp \in RaceHoldingsResponses : HoldingsResponse(c, resp)
    \/ \E c \in AllClients : \E resp \in AnyFallbackResponse : FallbackResponse(c, resp)
    \/ \E c \in AllClients : Return(c)

SpecRace == Init /\ [][NextRace]_vars

---------------------------------------------------------------------------
\* Properties

Recordable(coin) == Lower(GetOr(coin, "symbol", "")) # "" /\ Get(coin, "id") # None

\* Entry j is the first recordable entry of its symbol in the listing s
FirstSeen(s, j) ==
    /\ Recordable(s[j])
    /\ \A i \in 1..(j - 1) :
          ~(Recordable(s[i]) /\ Lower(s[i].symbol) = Lower(s[j].symbol))

\* C2: when a refresh has succeeded, every symbol of the listing it received
\* resolves to the id of the first entry that carries the symbol, and that
\* id's metadata is the first entry's; a later entry does not overwrite it.
C2_FirstSeenWins ==
    \A c \in AllClients :
        (pc[c] = "holdings_get" /\ top_ok[c] = "ok") =>
            \A j \in 1..Len(seen[c]) :
                FirstSeen(seen[c], j) =>
                    /\ get_id_from_symbol(symbol_to_id, seen[c][j].symbol) = seen[c][j].id
                    /\ seen[c][j].id \in DOMAIN id_to_market_data
                    /\ id_to_market_data[seen[c][j].id] = MarketData(seen[c][j])

\* "bitcoin" on an earlier page, and the same symbol again on a later page,
\* once with another id and once with the same id and newer metadata
C2_Witness ==
    \E c \in AllClients :
        /\ pc[c] = "holdings_get"
        /\ top_ok[c] = "ok"
        /\ Len(seen[c]) = 3
        /\ seen[c][1] = cBitcoin
        /\ seen[c][2] = cBatcat
        /\ seen[c][3] = cBitcoinLater
        /\ symbol_to_id["btc"] = "bitcoin"

EntersFiat(c) == pc[c] = "idle" /\ pc'[c] # "idle"
EntersMarket(c) == pc[c] \in {"idle", "fiat_close"} /\ pc'[c] \in {"market_get", "holdings_get"}

\* C4 (as claimed): for each cache, an accessor call that follows an earlier
\* call's fetch issues no fetch when at most ttl_seconds have passed since
\* that fetch ended (two calls, one fetch), and issues one when more have
\* passed (two calls, two fetches).
C4_OneFetchPerWindow ==
    [][\A c \in AllClients :
          /\ (EntersFiat(c) /\ fiat_attempt # NoTime) =>
                (pc'[c] = "fiat_get" <=> now - fiat_attempt > ttl_seconds)
          /\ (EntersMarket(c) /\ market_attempt # NoTime) =>
                (pc'[c] = "market_get" <=> now - market_attempt > ttl_seconds)]_vars

\* C5 (as claimed): a listing refresh that fails leaves symbol_to_id and
\* id_to_market_data as they were before it.
C5_FailedRefreshKeepsSnapshot ==
    [][\A c \in AllClients :
          (pc[c] = "market_get" /\ top_ok'[c] = "failed") =>
              /\ symbol_to_id' = symbol_to_id
              /\ id_to_market_data' = id_to_market_data]_vars

\* C6: a fiat refresh that fails (the request raises, or the payload has no
\* rates table) leaves the rate table exactly as it was.
C6_FiatFailureKeepsTable ==
    [][\A c \in AllClients :
          (pc[c] = "fiat_get" /\ pc'[c] = "raised") => rates' = rates]_vars

\* A fiat fetch has failed and the table still holds the rates of the
\* refresh before it
C6_Witness ==
    \E c \in AllClients :
        /\ pc[c] = "raised"
        /\ err[c] = "fiat_refresh"
        /\ fiat_attempt > fiat_last
        /\ fiat_last # NoTime
        /\ get_rate(rates, "jpy") = 67

\* C7 (as claimed): no get_portfolio call ends with the exception of a cache
\* refresh (fiat rates or market listing).
C7_RefreshFailureNotRaised ==
    \A c \in AllClients :
        pc[c] = "raised" => err[c] \notin {"fiat_refresh", "market_refresh"}

\* The holding client c is resuming on, as its fallback fetch answers
Awaited(c) == holdings[c][idx[c]]

\* Client c's fallback fetch is answered in this step
FallbackAnswered(c) ==
    pc[c] = "fallback_get" /\ (pc'[c] # "fallback_get" \/ idx'[c] # idx[c])

\* C8: a holding that misses the identity cache, whose fallback fetch finds
\* nothing, and whose symbol has no fiat rate, is dropped with a diagnostic:
\* no output entry comes from it; and when enrich_holdings returns, the output
\* has as many entries as the input minus the holdings dropped.
C8_UnknownDropped ==
    /\ [][\A c \in AllClients :
             (/\ FallbackAnswered(c)
              /\ fallback_id'[c] = None
              /\ get_rate(rates, Lower(Awaited(c).symbol)) = NoRate) =>
                 /\ \A j \in 1..Len(out'[c]) : out'[c][j].rec.id # Awaited(c).id
                 /\ dropped'[c] > dropped[c]
                 /\ pc'[c] # "raised"]_vars
    /\ [](\A c \in AllClients :
             pc[c] = "done" => Len(out[c]) = Len(holdings[c]) - dropped[c])

\* XZY, unknown everywhere, was dropped between two holdings that were kept
C8_Witness ==
    \E c \in AllClients :
        /\ pc[c] = "done"
        /\ Len(holdings[c]) = 2
        /\ holdings[c][2] = hXzy
        /\ fallback_id[c] = None
        /\ get_rate(rates, "xzy") = NoRate
        /\ get_id_from_symbol(symbol_to_id, "xzy") = None
        /\ Len(out[c]) = 1
        /\ dropped[c] = 1

\* C9 (as claimed): enrich_holdings never raises; a holding that fails is
\* dropped.
C9_EnrichNeverRaises ==
    \A c \in AllClients :
        pc[c] = "raised" => err[c] \notin {"ValidationError", "KeyError"}

\* The ids of a list of raw holdings or of enriched assets
HoldingIds(hs) == [i \in 1..Len(hs) |-> hs[i].id]
AssetIds(as) == [j \in 1..Len(as) |-> as[j].rec.id]

\* s is t with some elements left out, the others in their order
IsSubsequence(s, t) ==
    \E f \in [1..Len(s) -> 1..Len(t)] :
        /\ \A j \in 1..Len(s) : s[j] = t[f[j]]
        /\ \A j \in 1..(Len(s) - 1) : f[j] < f[j + 1]

\* C10: the enriched assets, read by the holding id each carries, are a
\* subsequence of the raw holdings: one holding per asset, at most one asset
\* per holding, the input order kept.
C10_OrderPreserved ==
    \A c \in AllClients :
        /\ Len(out[c]) <= Len(holdings[c])
        /\ IsSubsequence(AssetIds(out[c]), HoldingIds(holdings[c]))

\* Two holdings survived, a crypto one and a fiat one
C10_Witness ==
    \E c \in AllClients :
        /\ pc[c] = "done"
        /\ Len(out[c]) = 2
        /\ out[c][1].kind = "crypto"
        /\ out[c][2].kind = "fiat"

\* The output entry that the holding client c resumes on leaves in this step,
\* if it leaves one: the first entry appended
Emitted(c) == out'[c][Len(out[c]) + 1]

\* C11 (as claimed): a holding that misses the identity cache, whose fallback
\* fetch finds nothing, and whose symbol has the fiat rate r, is emitted as a
\* fiat asset: the lowercased symbol, the holding's balance, usd_value =
\* balance * r (not the holding's own usd_value), and no market field.
C11_FiatEmitted ==
    [][\A c \in AllClients :
          (/\ FallbackAnswered(c)
           /\ fallback_id'[c] = None
           /\ get_rate(rates, Lower(Awaited(c).symbol)) # NoRate) =>
              /\ Len(out'[c]) > Len(out[c])
              /\ Emitted(c).kind = "fiat"
              /\ Emitted(c).rec.id = Awaited(c).id
              /\ Emitted(c).rec.symbol = Lower(Awaited(c).symbol)
              /\ Emitted(c).rec.balance = Awaited(c).balance
              /\ Emitted(c).rec.usd_value =
                    Awaited(c).balance * get_rate(rates, Lower(Awaited(c).symbol))
              /\ DOMAIN Emitted(c).rec = FiatAssetFields]_vars

\* C12: when the holdings source fails, get_portfolio raises that error: the
\* call ends without a list, no holding was enriched or looked up, and the
\* step changes neither cache.
C12_HoldingsFailureRaised ==
    /\ [][\A c \in AllClients :
             (pc[c] = "holdings_get" /\ err'[c] = "holdings") =>
                 /\ pc'[c] = "raised"
                 /\ symbol_to_id' = symbol_to_id
                 /\ id_to_market_data' = id_to_market_data
                 /\ rates' = rates]_vars
    /\ [](\A c \in AllClients :
             err[c] = "holdings" =>
                 /\ pc[c] = "raised"
                 /\ holdings[c] = << >>
                 /\ out[c] = << >>
                 /\ idx[c] = 0
                 /\ dropped[c] = 0
                 /\ fallback_id[c] = None)

\* Both caches are filled and fresh, and the holdings source has failed
C12_Witness ==
    \E c \in AllClients :
        /\ pc[c] = "raised"
        /\ err[c] = "holdings"
        /\ get_id_from_symbol(symbol_to_id, "btc") = "bitcoin"
        /\ get_rate(rates, "jpy") = 67
        /\ out[c] = << >>

\* C13 (as claimed): when the fallback lookup for symbol S succeeds, the id it
\* records for S is the id of a listing asset whose symbol is S.
C13_FallbackSameSymbol ==
    [][\A c \in AllClients :
          (FallbackAnswered(c) /\ fallback_id'[c] # None) =>
              /\ get_id_from_symbol(symbol_to_id', Awaited(c).symbol) = fallback_id'[c]
              /\ Lower(id_to_market_data'[fallback_id'[c]].symbol)
                    = Lower(Awaited(c).symbol)]_vars

\* A listing refresh stores its result in this step
RefreshCompletes == \E c \in AllClients : pc[c] = "market_get" /\ pc'[c] = "holdings_get"

\* C14: a fallback lookup for S that succeeds with id I leaves S -> I in the
\* identity cache and I's fetched metadata in the metadata cache; an entry of
\* the identity cache stays, with its metadata entry, until a refresh replaces
\* the caches; and no fallback fetch is in flight for a symbol the cache holds,
\* so a later resolve of S is answered by the cache.
C14_FallbackCached ==
    /\ [][\A c \in AllClients :
             (FallbackAnswered(c) /\ fallback_id'[c] # None) =>
                 /\ get_id_from_symbol(symbol_to_id', Awaited(c).symbol) = fallback_id'[c]
                 /\ fallback_id'[c] \in DOMAIN id_to_market_data'
                 /\ id_to_market_data'[fallback_id'[c]].id = fallback_id'[c]]_vars
    /\ [][\A s \in DOMAIN symbol_to_id :
             RefreshCompletes \/
                 /\ s \in DOMAIN symbol_to_id'
                 /\ symbol_to_id'[s] = symbol_to_id[s]
                 /\ symbol_to_id[s] \in DOMAIN id_to_market_data']_vars
    /\ [](\A c \in AllClients :
             pc[c] = "fallback_get" =>
                 get_id_from_symbol(symbol_to_id, holdings[c][idx[c]].symbol) = None)

\* XZY was resolved by a fallback fetch in an earlier call; this call found it
\* in the cache, made no fallback fetch, and emitted the crypto record
C14_Witness ==
    \E c \in AllClients :
        /\ pc[c] = "done"
        /\ fallback_id[c] = None
        /\ get_id_from_symbol(symbol_to_id, "XZY") = "x-coin"
        /\ id_to_market_data["x-coin"].name = "X Coin"
        /\ Len(out[c]) = 1
        /\ out[c][1].kind = "crypto"
        /\ out[c][1].rec.id = "acct-xzy"

FetchIssued(c) ==
    pc'[c] = "fallback_get" /\ (pc[c] # "fallback_get" \/ idx'[c] # idx[c])

\* C18: resolve_cg_id issues a fallback fetch only for a symbol that the
\* identity cache does not resolve (a hit issues none), and the answer to a
\* fallback fetch ends the resolve of that holding: the loop finishes, raises
\* or goes on to a later holding, and never fetches again for the same one.
C18_CacheThenOneFallback ==
    /\ [][\A c \in AllClients :
             FetchIssued(c) =>
                 get_id_from_symbol(symbol_to_id', holdings'[c][idx'[c]].symbol) = None]_vars
    /\ [][\A c \in AllClients :
             (pc[c] = "fallback_get" /\ now' = now) =>
                 \/ pc'[c] \in {"done", "raised"}
                 \/ pc'[c] = "fallback_get" /\ idx'[c] > idx[c]]_vars

\* The first holding was resolved by the cache and emitted without a fetch;
\* the second misses the cache and its fallback fetch is in flight
C18_Witness ==
    \E c \in AllClients :
        /\ pc[c] = "fallback_get"
        /\ idx[c] = 2
        /\ holdings[c][1] = hBtc
        /\ get_id_from_symbol(symbol_to_id, "btc") = "bitcoin"
        /\ Len(out[c]) = 1
        /\ out[c][1].kind = "crypto"
        /\ fallback_id[c] = None

\* The values of a map
Range(f) == {f[k] : k \in DOMAIN f}

\* The rate table a successful refresh builds from the fetched table t
FreshRates(t) ==
    [k \in {Lower(x) : x \in DOMAIN t} \cup {"usd"} |->
        IF k = "usd" THEN UsdRate ELSE t[Upper(k)]]

C20_VariantByResolution ==
    [][\A c \in AllClients :
          \A j \in (Len(out[c]) + 1)..Len(out'[c]) :
              out'[c][j].kind = "fiat" =>
                  /\ FallbackAnswered(c)
                  /\ fallback_id'[c] = None
                  /\ j = Len(out[c]) + 1
                  /\ out'[c][j].rec.id = Awaited(c).id]_vars

\* XZY has a fiat rate, and its holding, resolved to a market id, was emitted
\* as a crypto record
C20_Witness ==
    \E c \in AllClients :
        /\ pc[c] = "done"
        /\ get_rate(rates, "xzy") = 3
        /\ Len(out[c]) = 1
        /\ out[c][1].kind = "crypto"
        /\ out[c][1].rec.id = "acct-xzy"
        /\ out[c][1].rec.usd_value = 0
        /\ fallback_id[c] = "x-coin"

\* Client c's fallback lookup inserts its result in this step: one identity
\* entry and one metadata entry, the other entries as they were
FallbackInserts(c) ==
    /\ pc[c] = "fallback_get"
    /\ fallback_id'[c] # None
    /\ symbol_to_id' = Put(symbol_to_id, Lower(Awaited(c).symbol), fallback_id'[c])
    /\ DOMAIN id_to_market_data' = (DOMAIN id_to_market_data) \cup {fallback_id'[c]}
    /\ \A k \in (DOMAIN id_to_market_data) \ {fallback_id'[c]} :
          id_to_market_data'[k] = id_to_market_data[k]

\* C16: with overlapping refreshes, the step in which a refresh completes
\* stores the identity map and the metadata map of that one fetch (so the
\* cache holds the pair of the refresh that completed last), and no other
\* step changes either map except by a fallback insert: no state mixes the
\* maps of two fetches.
C16_RefreshAtomic ==
    /\ [][\A c \in AllClients :
             (pc[c] = "market_get" /\ pc'[c] = "holdings_get") =>
                 /\ symbol_to_id' = top_sym'[c]
                 /\ id_to_market_data' = top_md'[c]]_vars
    /\ [][(symbol_to_id' # symbol_to_id \/ id_to_market_data' # id_to_market_data) =>
             (RefreshCompletes \/ \E c \in AllClients : FallbackInserts(c))]_vars

\* Two refreshes overlapped at time 0 and fetched different listings; both
\* have completed and the caches hold the pair of the one that completed last
C16_Witness ==
    \E c, d \in AllClients :
        /\ c # d
        /\ now = 0
        /\ pc[c] = "holdings_get" /\ top_ok[c] = "ok"
        /\ pc[d] = "holdings_get" /\ top_ok[d] = "ok"
        /\ top_md[c] # top_md[d]
        /\ top_md[c] # EmptyMap
        /\ symbol_to_id = top_sym[d]
        /\ id_to_market_data = top_md[d]
        /\ id_to_market_data # EmptyMap

\* C17: whatever the interleaving, at most one FiatRateCache and at most one
\* MarketDataCache are ever constructed, and every caller that an accessor has
\* returned to holds that one object.
C17_SingletonCaches ==
    /\ fiat_built <= 1
    /\ market_built <= 1
    /\ (fiat_inst <=> fiat_built = 1)
    /\ (market_inst <=> market_built = 1)
    /\ \A c \in AllClients :
          /\ fiat_ref[c] \in {0, fiat_built}
          /\ market_ref[c] \in {0, market_built}
          /\ pc[c] \in {"fiat_close"} => fiat_ref[c] = 0
          /\ pc[c] \in {"holdings_get", "fallback_get", "done"} =>
                (fiat_ref[c] = 1 /\ market_ref[c] = 1)

\* Two overlapping first calls: both went through both accessors while the
\* other was suspended, and both hold the same two objects
C17_Witness ==
    /\ now = 0
    /\ \A c \in AllClients :
          /\ pc[c] = "holdings_get"
          /\ top_ok[c] # "none"
          /\ fiat_ref[c] = 1
          /\ market_ref[c] = 1
    /\ fiat_attempt = 0

\* C21: the holdings request is issued only when both accessors have returned
\* their cache to the call and nothing has been raised; enrichment (the loop,
\* its output, a fallback fetch) starts only from the answer of the holdings
\* request, after which the call issues no second one; and a call that a
\* cache step has raised out of never asked for the holdings.
C21_CachesThenHoldingsThenEnrich ==
    /\ [][\A c \in AllClients :
             (pc'[c] = "holdings_get" /\ pc[c] # "holdings_get") =>
                 /\ pc[c] \in {"idle", "fiat_close", "market_get"}
                 /\ fiat_ref'[c] # 0
                 /\ market_ref'[c] # 0
                 /\ err'[c] = None
                 /\ holdings'[c] = << >>
                 /\ idx'[c] = 0]_vars
    /\ [][\A c \in AllClients :
             (pc'[c] \in {"fallback_get", "done"} /\ pc[c] # pc'[c]) =>
                 pc[c] \in {"holdings_get", "fallback_get"}]_vars
    /\ [][\A c \in AllClients :
             pc[c] \in {"fallback_get", "done", "raised"} =>
                 pc'[c] \in {"fallback_get", "done", "raised", "idle"}]_vars
    /\ [](\A c \in AllClients :
             (idx[c] > 0 \/ out[c] # << >> \/ holdings[c] # << >>) =>
                 pc[c] \in {"fallback_get", "done", "raised"})
    /\ [](\A c \in AllClients :
             (pc[c] = "raised" /\ err[c] \in {"fiat_refresh", "market_refresh"}) =>
                 (holdings[c] = << >> /\ idx[c] = 0 /\ market_ref[c] = 0))

\* A call that refreshed both caches, then obtained two holdings, then
\* enriched them
C21_Witness ==
    \E c \in AllClients :
        /\ pc[c] = "done"
        /\ fiat_ref[c] = 1
        /\ market_ref[c] = 1
        /\ top_ok[c] = "ok"
        /\ fiat_last = now
        /\ market_last = now
        /\ Len(holdings[c]) = 2
        /\ Len(out[c]) = 2

\* Every call that has started ends: get_portfolio returns a list or raises
C22_Completes ==
    \A c \in AllClients : (pc[c] # "idle") ~> (pc[c] \in {"done", "raised"})

\* A fallback lookup that fails for one holding does not end the call: the
\* loop goes on to the holdings after it
C22_FallbackFailureIsolated ==
    [][\A c \in AllClients :
          (FallbackAnswered(c) /\ fallback_id'[c] = None) =>
              (pc'[c] # "raised" /\ idx'[c] > idx[c])]_vars

\* C22 (as claimed): every get_portfolio call eventually completes when every
\* external call is answered or fails, and a fallback lookup that fails for
\* one holding drops or reroutes that holding only, the remaining holdings
\* being processed.
C22_CompletesAndIsolates == C22_Completes /\ C22_FallbackFailureIsolated

\* C23: every key of the identity cache is its own lowercase form, and every
\* entry is found by a lookup of its symbol in upper or lower case; a fallback
\* lookup that succeeds leaves its id under the lowercased symbol, found by a
\* lookup of the holding's symbol in either case.
C23_LowercaseKeys ==
    /\ [](\A k \in DOMAIN symbol_to_id :
             /\ Lower(k) = k
             /\ get_id_from_symbol(symbol_to_id, Upper(k)) = symbol_to_id[k]
             /\ get_id_from_symbol(symbol_to_id, k) = symbol_to_id[k])
    /\ [][\A c \in AllClients :
             (FallbackAnswered(c) /\ fallback_id'[c] # None) =>
                 /\ Lower(Awaited(c).symbol) \in DOMAIN symbol_to_id'
                 /\ get_id_from_symbol(symbol_to_id', Upper(Awaited(c).symbol))
                       = fallback_id'[c]
                 /\ get_id_from_symbol(symbol_to_id', Lower(Awaited(c).symbol))
                       = fallback_id'[c]]_vars

\* The listing spelled the symbol "BTC" and the holding "XZY": both are in the
\* cache under their lowercase form
C23_Witness ==
    \E c \in AllClients :
        /\ pc[c] = "done"
        /\ fallback_id[c] = "x-coin"
        /\ DOMAIN symbol_to_id = {"btc", "xzy"}
        /\ id_to_market_data[symbol_to_id["btc"]].symbol = "BTC"
        /\ holdings[c][Len(holdings[c])].symbol = "XZY"

\* C24: whatever refreshes, failed refreshes and fallback inserts have
\* interleaved, every id the identity cache maps to is a key of the metadata
\* cache, and no caller's metadata lookup fails with a missing key.
C24_IdsHaveMetadata ==
    /\ Range(symbol_to_id) \subseteq DOMAIN id_to_market_data
    /\ \A c \in AllClients : err[c] # "KeyError"

\* One caller's fallback insert is in the caches, next to a listing entry,
\* while the other caller's refresh is in flight
C24_Witness ==
    \E c, d \in AllClients :
        /\ c # d
        /\ pc[c] = "done"
        /\ fallback_id[c] = "x-coin"
        /\ DOMAIN symbol_to_id = {"btc", "xzy"}
        /\ Len(out[c]) = 2
        /\ pc[d] = "market_get"

\* C25: a market refresh that ends, with a listing or with a failure, sets
\* the last-refreshed time to now; and an accessor call made when at most
\* ttl_seconds have passed since the last attempt ended starts no listing
\* fetch, while one made later does.
C25_FailedRefreshStamped ==
    [][\A c \in AllClients :
          /\ (pc[c] = "market_get" /\ pc'[c] # "market_get") =>
                /\ top_ok'[c] \in {"ok", "failed"}
                /\ market_last' = now
          /\ (EntersMarket(c) /\ market_attempt # NoTime
                /\ now - market_attempt <= ttl_seconds) => pc'[c] # "market_get"
          /\ (EntersMarket(c) /\ market_attempt # NoTime
                /\ now - market_attempt > ttl_seconds) => pc'[c] = "market_get"]_vars

\* A refresh has failed after the clock moved, and the cache carries the time
\* of the failure
C25_Witness ==
    \E c \in AllClients :
        /\ pc[c] = "holdings_get"
        /\ top_ok[c] = "failed"
        /\ symbol_to_id = EmptyMap
        /\ now > 0
        /\ market_last = now

\* C26: a fiat refresh that fails leaves the fiat cache's last-refreshed time
\* and the cache object as they were; the next accessor call after a failed
\* attempt starts the fetch again, whatever the time, on the same object.
C26_FailedFiatRefreshRetried ==
    [][\A c \in AllClients :
          /\ (pc[c] = "fiat_get" /\ pc'[c] = "raised") =>
                /\ fiat_last' = fiat_last
                /\ fiat_inst'
                /\ fiat_built' = fiat_built
          /\ (EntersFiat(c) /\ fiat_attempt # NoTime /\ fiat_attempt # fiat_last) =>
                /\ pc'[c] = "fiat_get"
                /\ fiat_built' = fiat_built]_vars

\* The first initialization failed; a second call, with no time passed, has its
\* fetch in flight on the one cache object
C26_Witness ==
    \E c \in AllClients :
        /\ pc[c] = "fiat_get"
        /\ fiat_attempt = now
        /\ fiat_last = NoTime
        /\ fiat_built = 1

\* The mapping of symbol s is the one the listing refresh completed by caller d
\* stored, and is still in the cache
FromListing(d, s) ==
    /\ pc[d] \notin {"idle", "fiat_get", "fiat_close", "market_get"}
    /\ top_ok[d] = "ok"
    /\ s \in DOMAIN top_sym[d]
    /\ s \in DOMAIN symbol_to_id
    /\ symbol_to_id[s] = top_sym[d][s]

\* C27 (as claimed): an answer to a fallback fetch, whenever it arrives, leaves
\* every mapping that a listing refresh stored as it is, so that a lookup of a
\* listed symbol returns the listing's id.
C27_ListingMappingKept ==
    [][\A c, d \in AllClients : \A s \in DOMAIN symbol_to_id :
          (FallbackAnswered(c) /\ FromListing(d, s)) =>
              get_id_from_symbol(symbol_to_id', s) = top_sym[d][s]]_vars

\* C28: the holdings a caller's enrich_holdings works on stay the raw list it
\* was given (the merged record is a separate one); a step of enrich_holdings
\* leaves the fiat rate table as it was, and leaves the market caches as they
\* were or with the one entry of a successful fallback added.
C28_EnrichFrame ==
    /\ [](\A c \in AllClients : holdings[c] \in HoldingLists)
    /\ [][\A c \in AllClients :
             (pc[c] \in {"holdings_get", "fallback_get"}
                /\ (pc'[c] # pc[c] \/ idx'[c] # idx[c])) =>
                 /\ rates' = rates
                 /\ pc[c] = "fallback_get" => holdings'[c] = holdings[c]
                 /\ \/ /\ symbol_to_id' = symbol_to_id
                       /\ id_to_market_data' = id_to_market_data
                    \/ FallbackInserts(c)]_vars

\* enrich_holdings has returned two merged records, one through a fallback
\* insert; the raw holdings have none of the merged fields, and the listing's
\* entry and the rates are in place
C28_Witness ==
    \E c \in AllClients :
        /\ pc[c] = "done"
        /\ holdings[c] = << hBtc, hXzy >>
        /\ Len(out[c]) = 2
        /\ "current_price" \in DOMAIN out[c][1].rec
        /\ "current_price" \notin DOMAIN holdings[c][1]
        /\ symbol_to_id = Put(top_sym[c], "xzy", "x-coin")
        /\ "btc" \in DOMAIN top_sym[c]
        /\ "usd" \in DOMAIN rates

=============================================================================
